---- MODULE Spec2Model ----
(***************************************************************************)
(* dump1090-exporter: the three polling loops of Dump1090Exporter, the     *)
(* statistics reducer (process_stats) and the aircraft aggregator          *)
(* (process_aircraft), modelled from src/src/dump1090exporter/exporter.py  *)
(* and the metric table of src/src/dump1090exporter/metrics.py.            *)
(*                                                                         *)
(* JSON values are encoded homogeneously: a JSON object is a function from *)
(* its keys, and a JSON value of the statistics document is a record       *)
(* [shape, n, seq, pairs, obj] whose shape says which field carries it.    *)
(***************************************************************************)
EXTENDS Integers, Sequences, FiniteSets, TLC

VARIABLES
    \* the exporter object
    origin,           \* self.origin: None or a Position
    statsMetrics,     \* self.metrics["stats"]: (group, name) -> instrument
    aircraftMetrics,  \* self.metrics["aircraft"]: name -> instrument
    \* the last call of each reducer
    statsDoc,         \* the document handed to the last process_stats call
    statsRaised,      \* whether the last process_stats call raised
    statsWarned,      \* rows for which that call logged a warning
    statsCalls,       \* number of process_stats calls made
    aircraftDoc,      \* the document handed to the last process_aircraft call
    aircraftRaised,   \* whether the last process_aircraft call raised
    aircraftCalls,    \* number of process_aircraft calls made
    recordsFed,       \* number of aircraft records handed to process_aircraft
    \* the exporter's configuration and its collaborators
    configured_origin,  \* the origin argument of __init__: None or a Position
    resource_is_http,   \* resource.startswith("http") for the three resources
    svr,                \* the exposition endpoint: "new", "running" or "stopped"
    http,               \* self.metrics["http"]: total, errors, durations
    \* the three polling tasks
    task,             \* self.receiver_task, self.stats_task, self.aircraft_task
    pc,               \* where each loop is: NotStarted, Idle, Fetching, Sleeping, Stopped
    must_cancel,      \* Task.cancel() was called and is not yet delivered
    cycles,           \* number of cycles of each loop that have ended: a loop
                      \* body completed, or a fetch cut short by cancellation
    lastBody,         \* the loop body completed last: its loop, how its fetch
                      \* ended and whether it ended in the except clause
    receiverDoc,      \* the document the last successful receiver fetch returned
    fixture,          \* every cycle ended so far fetched a well-formed document
    \* the caller of start() and stop()
    stop_pc,          \* where a running stop() call is
    stop_raised,      \* whether a stop() call raised
    \* the wall clock and the locals of the three loops that read it
    now,              \* datetime.now(), in seconds
    cycle_start,      \* `start` of each loop: when its current cycle began
    wait_seconds,     \* `wait_seconds` of each loop, as computed last
    wake,             \* when the asyncio.sleep() of each loop returns
    \* the last calls of the geometry functions made on their own
    arg_distance,     \* the distance handed to distance_bucket
    ret_bucket,       \* what distance_bucket returned
    arg_pos1,         \* the origin handed to relative_angle
    arg_pos2,         \* the target handed to relative_angle
    ret_angle,        \* what relative_angle returned
    ret_bearing,      \* what relative_bearing returned for that angle
    \* the tasks a second start() has left behind
    orphans           \* the loops of which a task runs that no attribute holds

reducerVars == <<statsMetrics, aircraftMetrics, statsDoc, statsRaised, statsWarned,
                 statsCalls, aircraftDoc, aircraftRaised, aircraftCalls, recordsFed>>

configVars == <<configured_origin, resource_is_http>>

taskVars == <<task, pc, must_cancel, cycles, lastBody, receiverDoc, fixture>>

callerVars == <<stop_pc, stop_raised>>

schedulerVars == <<configVars, svr, http, taskVars, callerVars>>

clockVars == <<now, cycle_start, wait_seconds, wake>>

callVars == <<arg_distance, ret_bucket, arg_pos1, arg_pos2, ret_angle, ret_bearing>>

vars == <<origin, reducerVars, schedulerVars, clockVars, callVars, orphans>>

----------------------------------------------------------------------------
(* Bounds of the model *)

\* largest scalar value a generated statistics document carries
MaxStatValue == 2
\* number of process_stats calls in one behaviour of SpecStats
MaxStatsCalls == 2
\* number of process_aircraft calls in one behaviour of SpecAircraft
MaxAircraftCalls == 2
\* number of aircraft records handed to process_aircraft in one behaviour
MaxRecords == 2
\* number of loop bodies the three loops begin, together, in one behaviour of Spec
MaxCycles == 2
\* number of loop bodies the three loops begin, together, in one behaviour of
\* SpecPolling
MaxPolls == 3
\* number of loop bodies all tasks begin, together, in one behaviour of
\* SpecRestart
MaxRestartCycles == 2
\* number of loop bodies the three loops begin, together, in one behaviour of
\* SpecTiming
MaxTimedCycles == 2
\* how far, in tenths of a metre, the distances handed to distance_bucket
\* lie from a bucket bound
MaxOffset == 10
\* the last second the clock of SpecTiming reaches
MaxTime == 3
\* the intervals handed to __init__, in seconds (the defaults are 10, 60, 10
\* and 300): small values, so that a body can outlast an interval
aircraft_interval == 1
stats_interval == 2
receiver_interval == 1
receiver_interval_origin_ok == 3

----------------------------------------------------------------------------
(* Instruments: a Gauge/Counter is the map from its label sets to values *)

\* math.nan, the value written for a missing statistics field
NaN == -1
\* a JSON value that is not a number (a list or an object) stored as a sample
Opaque == -2

\* the empty label set {}
NoLabels == <<>>

Label(key, value) == <<<<key, value>>>>

NoSamples == [l \in {} |-> 0]

\* MetricSet altered to add the value to the sample already there
\* (sensitivity of C13)
C13_Mutant_MetricSet(metric, labels, value) ==
    [l \in (DOMAIN metric) \cup {labels} |->
        IF l # labels THEN metric[l]
        ELSE IF labels \in DOMAIN metric THEN metric[labels] + value ELSE value]

\* metric.set(labels, value)
MetricSet(metric, labels, value) ==
    [l \in (DOMAIN metric) \cup {labels} |->
        IF l = labels THEN value ELSE metric[l]]

----------------------------------------------------------------------------
(* The statistics rows of the Metric Spec Table, in iteration order *)

Row(g, k, tp, n) == [group |-> g, kind |-> k, time_period |-> tp, name |-> n]

StatsRows == <<
    Row("", "counter", "total", "messages"),
    Row("", "counter", "total", "messages_by_df"),
    Row("adaptive", "gauge", "last1min", "dynamic_range_limit_db"),
    Row("adaptive", "counter", "total", "gain_changes"),
    Row("adaptive", "gauge", "last1min", "gain_db"),
    Row("adaptive", "counter", "total", "gain_seconds"),
    Row("adaptive", "counter", "total", "loud_decoded"),
    Row("adaptive", "counter", "total", "loud_undecoded"),
    Row("adaptive", "gauge", "total", "noise_dbfs"),
    Row("cpr", "counter", "total", "airborne"),
    Row("cpr", "counter", "total", "surface"),
    Row("cpr", "counter", "total", "filtered"),
    Row("cpr", "counter", "total", "global_bad"),
    Row("cpr", "counter", "total", "global_ok"),
    Row("cpr", "counter", "total", "global_range"),
    Row("cpr", "counter", "total", "global_skipped"),
    Row("cpr", "counter", "total", "global_speed"),
    Row("cpr", "counter", "total", "local_aircraft_relative"),
    Row("cpr", "counter", "total", "local_ok"),
    Row("cpr", "counter", "total", "local_range"),
    Row("cpr", "counter", "total", "local_receiver_relative"),
    Row("cpr", "counter", "total", "local_skipped"),
    Row("cpr", "counter", "total", "local_speed"),
    Row("cpu", "counter", "total", "background"),
    Row("cpu", "counter", "total", "demod"),
    Row("cpu", "counter", "total", "reader"),
    Row("local", "counter", "total", "accepted"),
    Row("local", "gauge", "last1min", "signal"),
    Row("local", "gauge", "last1min", "peak_signal"),
    Row("local", "gauge", "last1min", "noise"),
    Row("local", "counter", "total", "strong_signals"),
    Row("local", "counter", "total", "bad"),
    Row("local", "counter", "total", "modes"),
    Row("local", "counter", "total", "modeac"),
    Row("local", "counter", "total", "samples_dropped"),
    Row("local", "counter", "total", "samples_processed"),
    Row("local", "counter", "total", "unknown_icao"),
    Row("remote", "counter", "total", "accepted"),
    Row("remote", "counter", "total", "bad"),
    Row("remote", "counter", "total", "modeac"),
    Row("remote", "counter", "total", "modes"),
    Row("remote", "counter", "total", "unknown_icao"),
    Row("tracks", "counter", "total", "all"),
    Row("tracks", "counter", "total", "single_message"),
    Row("tracks", "counter", "total", "unreliable")
>>

RowIndex == 1..Len(StatsRows)

RowKey(row) == <<row.group, row.name>>

RowKeys == {RowKey(StatsRows[i]) : i \in RowIndex}

\* self.metrics["stats"] as initialise_metrics builds it: no sample set yet
InitStatsMetrics == [k \in RowKeys |-> NoSamples]

----------------------------------------------------------------------------
(* JSON values of a statistics document *)

NoFields == [k \in {} |-> 0]

Scalar(v) ==
    [shape |-> "scalar", n |-> v, seq |-> <<>>, pairs |-> <<>>, obj |-> NoFields]
CountSeq(s) ==
    [shape |-> "seq", n |-> 0, seq |-> s, pairs |-> <<>>, obj |-> NoFields]
PairSeq(p) ==
    [shape |-> "pairs", n |-> 0, seq |-> <<>>, pairs |-> p, obj |-> NoFields]
Object(fields) ==
    [shape |-> "obj", n |-> 0, seq |-> <<>>, pairs |-> <<>>, obj |-> fields]

----------------------------------------------------------------------------
(* process_stats *)

\* the number of items a for loop over the value visits
ItemCount(value) ==
    CASE value.shape = "seq" -> Len(value.seq)
      [] value.shape = "pairs" -> Len(value.pairs)
      [] value.shape = "obj" -> Cardinality(DOMAIN value.obj)
      [] OTHER -> 0

\* the i-th item (from 1) as a sample value: a count, or a value that is no number
ItemValue(value, i) == IF value.shape = "seq" THEN value.seq[i] ELSE Opaque

\* SetFromValue altered to set one unlabelled value whatever the field is
\* called (sensitivity of C21)
C21_Mutant_SetFromValue(name, value, metric) ==
    [metric |-> MetricSet(metric, NoLabels,
                          IF value.shape = "scalar" THEN value.n ELSE Opaque),
     raised |-> FALSE]

\* the body of the second try block for a field that is present
SetFromValue(name, value, metric) ==
    IF name \in {"accepted", "messages_by_df"} THEN
        LET key == IF name = "accepted" THEN "bit_errors" ELSE "data_format"
            SetAll[i \in 0..ItemCount(value)] ==
                IF i = 0 THEN metric
                ELSE MetricSet(SetAll[i - 1], Label(key, i - 1), ItemValue(value, i))
        IN  IF value.shape = "scalar"
            \* enumerate() of a number raises TypeError
            THEN [metric |-> metric, raised |-> TRUE]
            ELSE [metric |-> SetAll[ItemCount(value)], raised |-> FALSE]
    ELSE IF name = "gain_seconds" THEN
        LET SetAll[i \in 0..Len(value.pairs)] ==
                IF i = 0 THEN metric
                ELSE MetricSet(SetAll[i - 1], Label("dB", value.pairs[i][1]),
                               value.pairs[i][2])
        IN  IF value.shape = "pairs"
            THEN [metric |-> SetAll[Len(value.pairs)], raised |-> FALSE]
            \* iterating a number, or unpacking an item that is no pair, raises
            ELSE [metric |-> metric,
                  raised |-> value.shape = "scalar" \/ ItemCount(value) > 0]
    ELSE
        [metric |-> MetricSet(metric, NoLabels,
                              IF value.shape = "scalar" THEN value.n ELSE Opaque),
         raised |-> FALSE]

\* SetMissing altered to leave the instrument as it was (sensitivity of C4)
C4_Mutant_SetMissing(name, metric) == metric

\* the except KeyError branch of the second try block
SetMissing(name, metric) == MetricSet(metric, NoLabels, NaN)

WarnsWhenMissing(name) == name \notin {"peak_signal", "signal"}

\* d = tp_stats[group_key] if group_key else tp_stats raises KeyError
\* when the group is absent (a section is a function from its keys)
GroupPresent(tp_stats, group_key) ==
    group_key = "" \/ group_key \in DOMAIN tp_stats

\* d[name] on a d that is a number or a list raises TypeError
Subscriptable(tp_stats, group_key) ==
    group_key = "" \/ tp_stats[group_key].shape = "obj"

GroupObject(tp_stats, group_key) ==
    IF group_key = "" THEN tp_stats ELSE tp_stats[group_key].obj

\* one pass of the loop body for a row: what happens to the row's instrument
\* and how the pass ends ("continue", "raise", "missing" or "set")
RowPass(stats, row, metric) ==
    IF row.time_period \notin DOMAIN stats THEN
        \* except KeyError: logger.exception(...); continue
        [metric |-> metric, ends |-> "continue"]
    ELSE
        LET tp_stats == stats[row.time_period] IN
        IF ~GroupPresent(tp_stats, row.group) THEN
            \* KeyError outside of any try block
            [metric |-> metric, ends |-> "raise"]
        ELSE IF ~Subscriptable(tp_stats, row.group) THEN
            [metric |-> metric, ends |-> "raise"]
        ELSE
            LET d == GroupObject(tp_stats, row.group) IN
            IF row.name \notin DOMAIN d THEN
                [metric |-> SetMissing(row.name, metric), ends |-> "missing"]
            ELSE
                LET r == SetFromValue(row.name, d[row.name], metric) IN
                [metric |-> r.metric, ends |-> IF r.raised THEN "raise" ELSE "set"]

\* the rows the loop reaches: all of them, or those up to the first pass
\* that raises (the exception leaves process_stats)
RaisingRows(stats) ==
    {i \in RowIndex : RowPass(stats, StatsRows[i], NoSamples).ends = "raise"}

FirstRaising(stats) ==
    LET raising == RaisingRows(stats) IN
    IF raising = {} THEN Len(StatsRows) + 1
    ELSE CHOOSE i \in raising : \A j \in raising : i <= j

RowOf == [key \in RowKeys |-> CHOOSE i \in RowIndex : RowKey(StatsRows[i]) = key]

ProcessStats(stats, metrics) ==
    LET stop == FirstRaising(stats) IN
    [metrics |->
        [key \in RowKeys |->
            IF RowOf[key] <= stop
            THEN RowPass(stats, StatsRows[RowOf[key]], metrics[key]).metric
            ELSE metrics[key]],
     raised |-> stop <= Len(StatsRows),
     warned |->
        {RowKey(StatsRows[i]) : i \in
            {j \in RowIndex :
                /\ j <= stop
                /\ RowPass(stats, StatsRows[j], NoSamples).ends = "missing"
                /\ WarnsWhenMissing(StatsRows[j].name)}}]

----------------------------------------------------------------------------
(* Statistics documents: stats.json as a function from its time periods to  *)
(* sections, a section being a function from its keys to JSON values        *)

TimePeriods == {"total", "last1min"}

GroupNames == {StatsRows[i].group : i \in RowIndex} \ {""}

FieldsOf(g) == {StatsRows[i].name : i \in {j \in RowIndex : StatsRows[j].group = g}}

\* a field in the shape dump1090 writes it
WellShaped(name, v) ==
    CASE name \in {"accepted", "messages_by_df"} -> CountSeq([i \in 1..v |-> v])
      [] name = "gain_seconds" -> PairSeq([i \in 1..v |-> <<v + i, v>>])
      [] OTHER -> Scalar(v)

FullSection(v) ==
    [k \in FieldsOf("") \cup GroupNames |->
        IF k \in GroupNames
        THEN Object([n \in FieldsOf(k) |-> WellShaped(n, v)])
        ELSE WellShaped(k, v)]

FullStats(v) == [tp \in TimePeriods |-> FullSection(v)]

Without(f, k) == [x \in (DOMAIN f) \ {k} |-> f[x]]

With(f, k, value) == [x \in (DOMAIN f) \cup {k} |-> IF x = k THEN value ELSE f[x]]

WithoutPeriod(doc, tp) == Without(doc, tp)

WithoutGroup(doc, tp, g) == [doc EXCEPT ![tp] = Without(@, g)]

WithoutField(doc, tp, g, name) ==
    IF g = "" THEN [doc EXCEPT ![tp] = Without(@, name)]
    ELSE [doc EXCEPT ![tp] = [@ EXCEPT ![g] = Object(Without(@.obj, name))]]

WithField(doc, tp, g, name, value) ==
    IF g = "" THEN [doc EXCEPT ![tp] = With(@, name, value)]
    ELSE [doc EXCEPT ![tp] = [@ EXCEPT ![g] = Object(With(@.obj, name, value))]]

\* the document of the golden data: no signal figures in the last minute
QuietStats(v) ==
    WithoutField(WithoutField(FullStats(v), "last1min", "local", "signal"),
                 "last1min", "local", "peak_signal")

\* a document is well formed when every row finds its period, its group and,
\* signal figures aside, its field in the shape dump1090 writes it
WellFormedStats(doc) ==
    \A i \in RowIndex :
        LET row == StatsRows[i] IN
        /\ row.time_period \in DOMAIN doc
        /\ GroupPresent(doc[row.time_period], row.group)
        /\ Subscriptable(doc[row.time_period], row.group)
        /\ LET d == GroupObject(doc[row.time_period], row.group) IN
           IF row.name \notin DOMAIN d THEN ~WarnsWhenMissing(row.name)
           ELSE /\ d[row.name].shape = WellShaped(row.name, 1).shape
                /\ d[row.name].shape # "scalar" => ItemCount(d[row.name]) > 0

StatsDocs ==
    {FullStats(v) : v \in 1..MaxStatValue}
    \cup {QuietStats(1)}
    \cup {WithoutPeriod(FullStats(1), tp) : tp \in TimePeriods}
    \cup {WithoutGroup(FullStats(1), "total", g) : g \in GroupNames}
    \cup {WithoutGroup(FullStats(1), "last1min", g) : g \in {"adaptive", "local", "cpr"}}
    \cup {WithoutField(FullStats(1), StatsRows[i].time_period, StatsRows[i].group,
                       StatsRows[i].name) : i \in RowIndex}
    \cup {WithField(FullStats(1), "total", "local", "accepted", Scalar(1)),
          WithField(FullStats(1), "total", "adaptive", "gain_seconds", CountSeq(<<1>>)),
          WithField(FullStats(1), "total", "cpr", "airborne", CountSeq(<<1>>)),
          WithField(FullStats(1), "total", "", "cpu", Scalar(1)),
          WithField(FullStats(1), "total", "remote", "accepted", CountSeq(<<>>)),
          WithoutField(WithoutGroup(FullStats(1), "total", "cpr"),
                       "last1min", "local", "noise"),
          WithoutField(QuietStats(1), "total", "adaptive", "gain_changes"),
          WithoutGroup(WithoutPeriod(FullStats(1), "last1min"), "total", "cpr")}

----------------------------------------------------------------------------
(* Geo math.  Coordinates are whole degrees, distances are tenths of a     *)
(* metre and angles are thousandths of a degree; the trigonometry is       *)
(* tabulated from the source's formulas at the coordinates the model uses. *)

Position(lat, lon) == [latitude |-> lat, longitude |-> lon]

Abs(x) == IF x < 0 THEN -x ELSE x

Latitudes == -1..2

\* 2 * radius * asin(sqrt(hav)) for radius 6371.0e3, by latitude of pos1,
\* latitude of pos2 (both from -1) and difference of longitude (from 0)
HaversineTable == <<
    <<<<0, 1111780, 2223560, 3335340, 4447119, 5558899>>,
      <<1111949, 1572494, 2486293, 3516132, 4584465, 5669574>>,
      <<2223899, 2486369, 3144988, 4009049, 4972586, 5987768>>,
      <<3335848, 3516239, 4009002, 4717242, 5559204, 6482996>>>>,
    <<<<1111949, 1572494, 2486293, 3516132, 4584465, 5669574>>,
      <<0, 1111949, 2223899, 3335848, 4447797, 5559746>>,
      <<1111949, 1572494, 2486293, 3516132, 4584465, 5669574>>,
      <<2223899, 2486293, 3144748, 4008626, 4971980, 5986981>>>>,
    <<<<2223899, 2486369, 3144988, 4009049, 4972586, 5987768>>,
      <<1111949, 1572494, 2486293, 3516132, 4584465, 5669574>>,
      <<0, 1111780, 2223560, 3335340, 4447119, 5558899>>,
      <<1111949, 1572254, 2485687, 3515167, 4583150, 5667912>>>>,
    <<<<3335848, 3516239, 4009002, 4717242, 5559204, 6482996>>,
      <<2223899, 2486293, 3144748, 4008626, 4971980, 5986981>>,
      <<1111949, 1572254, 2485687, 3515167, 4583150, 5667912>>,
      <<0, 1111272, 2222544, 3333815, 4445086, 5556357>>>> >>

haversine_distance(pos1, pos2) ==
    HaversineTable[pos1.latitude + 2][pos2.latitude + 2]
                  [Abs(pos2.longitude - pos1.longitude) + 1]

\* degrees(atan(a / b)) for a from 0 and b from 1
AtanTable == <<
    <<0, 0, 0>>,
    <<45000, 26565, 18435>>,
    <<63435, 45000, 33690>>,
    <<71565, 56310, 45000>>,
    <<75964, 63435, 53130>>,
    <<78690, 68199, 59036>> >>

\* degrees(atan(num / den)), den # 0: atan is odd
AtanDegrees(num, den) ==
    LET magnitude == AtanTable[Abs(num) + 1][Abs(den)]
    IN  IF (num < 0) # (den < 0) THEN -magnitude ELSE magnitude

FullTurn == 360000

\* relative_angle altered to return 360 + deg as it is (sensitivity of C24)
C24_Mutant_relative_angle(pos1, pos2) ==
    IF pos2.latitude = pos1.latitude THEN
        IF pos2.longitude > pos1.longitude THEN 90000 ELSE 270000
    ELSE
        LET deg == AtanDegrees(pos2.longitude - pos1.longitude,
                               pos2.latitude - pos1.latitude) IN
        IF pos2.latitude > pos1.latitude THEN FullTurn + deg ELSE 180000 + deg

relative_angle(pos1, pos2) ==
    LET lat1 == pos1.latitude
        lon1 == pos1.longitude
        lat2 == pos2.latitude
        lon2 == pos2.longitude
    IN  IF lat2 = lat1 THEN
            IF lon2 > lon1 THEN 90000 ELSE 270000
        ELSE
            LET deg == AtanDegrees(lon2 - lon1, lat2 - lat1) IN
            IF lat2 > lat1 THEN (FullTurn + deg) % FullTurn ELSE 180000 + deg

SectorWidth == 22500

\* str() of a float that is a whole number of tenths
FloatStr(tenths) == ToString(tenths \div 10) \o "." \o ToString(tenths % 10)

\* str(int(bearing / 22.5) * 22.5)
relative_bearing(bearing) ==
    FloatStr(((bearing \div SectorWidth) * SectorWidth) \div 100)

\* distance_bucket altered to put a distance that equals a bound into the
\* band above it (sensitivity of C23)
C23_Mutant_distance_bucket(distance) ==
    IF distance >= 4000000 THEN "+Inf"
    ELSE IF distance >= 3200000 THEN "400000.0"
    ELSE IF distance >= 2400000 THEN "320000.0"
    ELSE IF distance >= 1600000 THEN "240000.0"
    ELSE IF distance >= 800000 THEN "160000.0"
    ELSE "80000.0"

distance_bucket(distance) ==
    IF distance > 4000000 THEN "+Inf"
    ELSE IF distance > 3200000 THEN "400000.0"
    ELSE IF distance > 2400000 THEN "320000.0"
    ELSE IF distance > 1600000 THEN "240000.0"
    ELSE IF distance > 800000 THEN "160000.0"
    ELSE "80000.0"

----------------------------------------------------------------------------
(* process_aircraft *)

AircraftKeys == <<"altitude", "category", "flight", "hex", "lat", "lon", "mlat",
                  "nucp", "rssi", "seen", "seen_pos", "speed", "squalk", "tisb",
                  "track", "vert_rate", "rel_angle", "rel_direction">>

\* None, and a value that is not None
None == <<>>
Some(v) == <<v>>
Value(x) == x[1]

\* entry.setdefault(key, None) for every key of AircraftKeys
Normalised(entry) ==
    [key \in {AircraftKeys[i] : i \in 1..Len(AircraftKeys)} |->
        IF key \in DOMAIN entry THEN Some(entry[key]) ELSE None]

Threshold == 15

\* self.metrics["aircraft"] as initialise_metrics builds it
AircraftMetricNames ==
    {"observed", "observed_with_pos", "observed_with_mlat", "max_range",
     "recent_count", "count"}

InitAircraftMetrics == [name \in AircraftMetricNames |-> NoSamples]

\* Histogram.observe(labels, value): the observations made under a label set
HistogramObserve(metric, labels, value) ==
    IF labels \in DOMAIN metric
    THEN [metric EXCEPT ![labels] = [n |-> @.n + 1, sum |-> @.sum + value]]
    ELSE [l \in (DOMAIN metric) \cup {labels} |->
            IF l = labels THEN [n |-> 1, sum |-> value] ELSE metric[l]]

\* a["seen_pos"] and a["seen_pos"] < threshold: None and 0 are both false
PositionRecent(a) ==
    /\ a["seen_pos"] # None
    /\ Value(a["seen_pos"]) # 0
    /\ Value(a["seen_pos"]) < Threshold

\* a["mlat"] and "lat" in a["mlat"]: None and the empty list are both false
HasMlat(a) ==
    /\ a["mlat"] # None
    /\ Len(Value(a["mlat"])) > 0
    /\ \E i \in 1..Len(Value(a["mlat"])) : Value(a["mlat"])[i] = "lat"

\* defaultdict(int): reading a missing key stores 0 under it
DefaultGet(dict, key) == IF key \in DOMAIN dict THEN dict[key] ELSE 0

DictPut(dict, key, value) ==
    [k \in (DOMAIN dict) \cup {key} |-> IF k = key THEN value ELSE dict[k]]

EmptyDict == [k \in {} |-> 0]

\* the locals of process_aircraft before its main loop
InitTally(metrics) ==
    [aircraft_observed |-> 0, aircraft_with_pos |-> 0, aircraft_with_mlat |-> 0,
     aircraft_positions |-> EmptyDict, aircraft_max_ranges |-> EmptyDict,
     count |-> metrics["count"], raised |-> FALSE]

\* one pass of the main loop over record a
TallyOne(t, a, org) ==
    IF a["seen"] = None THEN
        \* None < threshold raises TypeError
        [t EXCEPT !.raised = TRUE]
    ELSE
        LET t1 == IF Value(a["seen"]) < Threshold
                  THEN [t EXCEPT !.aircraft_observed = @ + 1] ELSE t
        IN
        IF ~PositionRecent(a) THEN t1
        ELSE
            LET t2 == [t1 EXCEPT !.aircraft_with_pos = @ + 1,
                                 !.aircraft_with_mlat =
                                     IF HasMlat(a) THEN @ + 1 ELSE @]
            IN
            IF org = None THEN t2
            ELSE IF a["lat"] = None \/ a["lon"] = None THEN
                \* radians(None) raises TypeError
                [t2 EXCEPT !.raised = TRUE]
            ELSE
                LET target == Position(Value(a["lat"]), Value(a["lon"]))
                    distance == haversine_distance(Value(org), target)
                    distance_label == distance_bucket(distance)
                    bearing == relative_angle(Value(org), target)
                    bearing_label == relative_bearing(bearing)
                    recent_labels == <<bearing_label, distance_label>>
                    old_max == DefaultGet(t2.aircraft_max_ranges, bearing_label)
                IN  [t2 EXCEPT
                        !.aircraft_max_ranges =
                            DictPut(@, bearing_label,
                                    IF distance > old_max THEN distance ELSE old_max),
                        !.aircraft_positions =
                            DictPut(@, recent_labels, DefaultGet(@, recent_labels) + 1),
                        !.count =
                            HistogramObserve(@, Label("bearing", bearing_label),
                                             distance)]

\* TallyFrom altered to measure the records after the first against another
\* origin, as if the receiver loop had written one in between
\* (sensitivity of C19)
RECURSIVE C19_Mutant_TallyFrom(_, _, _, _)
C19_Mutant_TallyFrom(i, entries, t, org) ==
    IF i > Len(entries) \/ t.raised THEN t
    ELSE C19_Mutant_TallyFrom(i + 1, entries,
            TallyOne(t, entries[i],
                     IF i = 1 \/ org = None THEN org
                     ELSE Some(Position(1 - Value(org).latitude, 0))),
            org)

RECURSIVE TallyFrom(_, _, _, _)
TallyFrom(i, entries, t, org) ==
    IF i > Len(entries) \/ t.raised THEN t
    ELSE TallyFrom(i + 1, entries, TallyOne(t, entries[i], org), org)

\* PublishMaxRanges altered to publish a zero for the first sector whatever
\* was tallied (sensitivity of C11)
C11_Mutant_PublishMaxRanges(metric, max_ranges) ==
    MetricSet(metric, Label("bearing", "0.0"), 0)

\* metrics["max_range"].set(dict(bearing=bearing_label), max_range) for every item
PublishMaxRanges(metric, max_ranges) ==
    [l \in (DOMAIN metric) \cup {Label("bearing", b) : b \in DOMAIN max_ranges} |->
        IF \E b \in DOMAIN max_ranges : l = Label("bearing", b)
        THEN max_ranges[l[1][2]] ELSE metric[l]]

RecentLabels(labels) == <<<<"bearing", labels[1]>>, <<"distance", labels[2]>>>>

\* metrics["recent_count"].set(labels, count) for every item
PublishPositions(metric, positions) ==
    [l \in (DOMAIN metric) \cup {RecentLabels(p) : p \in DOMAIN positions} |->
        IF \E p \in DOMAIN positions : l = RecentLabels(p)
        THEN positions[<<l[1][2], l[2][2]>>] ELSE metric[l]]

ProcessAircraft(aircraft, org, metrics) ==
    IF "aircraft" \notin DOMAIN aircraft THEN
        \* aircraft["aircraft"] raises KeyError
        [metrics |-> metrics, raised |-> TRUE]
    ELSE
        LET entries == [i \in 1..Len(aircraft["aircraft"]) |->
                            Normalised(aircraft["aircraft"][i])]
            t == TallyFrom(1, entries, InitTally(metrics), org)
        IN
        IF t.raised THEN
            \* the observations already made on the histogram stay
            [metrics |-> [metrics EXCEPT !["count"] = t.count], raised |-> TRUE]
        ELSE
            [metrics |->
                [metrics EXCEPT
                    !["count"] = t.count,
                    !["observed"] = MetricSet(@, NoLabels, t.aircraft_observed),
                    !["observed_with_pos"] = MetricSet(@, NoLabels, t.aircraft_with_pos),
                    !["observed_with_mlat"] =
                        MetricSet(@, NoLabels, t.aircraft_with_mlat),
                    !["max_range"] = PublishMaxRanges(@, t.aircraft_max_ranges),
                    !["recent_count"] = PublishPositions(@, t.aircraft_positions)],
             raised |-> FALSE]

----------------------------------------------------------------------------
(* Aircraft documents: aircraft.json as an object whose "aircraft" key      *)
(* holds a list of records, a record being a function from its keys         *)

AircraftRecords == {
    [hex |-> "a1", seen |-> 1],
    [hex |-> "a2", seen |-> 20],
    [hex |-> "a3", seen |-> 1, seen_pos |-> 2, lat |-> 0, lon |-> 1],
    [hex |-> "a4", seen |-> 0, seen_pos |-> 0, lat |-> 1, lon |-> 1],
    [hex |-> "a5", seen |-> 1, seen_pos |-> 1, lat |-> 2, lon |-> -1,
     mlat |-> <<"lat", "lon">>],
    [hex |-> "a6", seen |-> 1, seen_pos |-> 14, lat |-> 0, lon |-> 4,
     mlat |-> <<"track">>],
    [hex |-> "a7"],
    [hex |-> "a8", seen |-> 1, seen_pos |-> 1],
    [hex |-> "a9", seen |-> 1, seen_pos |-> 15, lat |-> 0, lon |-> 0],
    [hex |-> "aa", seen |-> 20, seen_pos |-> 1, lat |-> 0, lon |-> 1]
}

AircraftDoc(records) == [aircraft |-> records]

RECURSIVE SeqsUpTo(_, _)
SeqsUpTo(S, n) ==
    IF n = 0 THEN {<<>>}
    ELSE LET shorter == SeqsUpTo(S, n - 1)
         IN  shorter \cup {Append(q, x) : q \in {r \in shorter : Len(r) = n - 1}, x \in S}

\* a record is well formed when it has the fields dump1090 always writes:
\* seen, and lat and lon beside every seen_pos
WellFormedRecord(entry) ==
    /\ "seen" \in DOMAIN entry
    /\ "seen_pos" \in DOMAIN entry => {"lat", "lon"} \subseteq DOMAIN entry

WellFormedAircraft(doc) ==
    /\ "aircraft" \in DOMAIN doc
    /\ \A i \in 1..Len(doc["aircraft"]) : WellFormedRecord(doc["aircraft"][i])

Origins == {Position(0, 0), Position(1, 0)}

----------------------------------------------------------------------------
(* Initial values *)

InitReducers ==
    /\ statsMetrics = InitStatsMetrics
    /\ aircraftMetrics = InitAircraftMetrics
    /\ statsDoc = NoFields
    /\ statsRaised = FALSE
    /\ statsWarned = {}
    /\ statsCalls = 0
    /\ aircraftDoc = NoFields
    /\ aircraftRaised = FALSE
    /\ aircraftCalls = 0
    /\ recordsFed = 0

\* self.origin = Position(*origin) if origin else None
InitOrigin == origin \in {None} \cup {Some(p) : p \in Origins}

----------------------------------------------------------------------------
(* The reducers as methods of the exporter *)

CallProcessStats(stats) ==
    LET r == ProcessStats(stats, statsMetrics) IN
    /\ statsMetrics' = r.metrics
    /\ statsDoc' = stats
    /\ statsRaised' = r.raised
    /\ statsWarned' = r.warned
    /\ statsCalls' = statsCalls + 1

CallProcessAircraft(aircraft) ==
    LET r == ProcessAircraft(aircraft, origin, aircraftMetrics) IN
    /\ aircraftMetrics' = r.metrics
    /\ aircraftDoc' = aircraft
    /\ aircraftRaised' = r.raised
    /\ aircraftCalls' = aircraftCalls + 1
    /\ recordsFed' = recordsFed +
            (IF "aircraft" \in DOMAIN aircraft THEN Len(aircraft["aircraft"]) ELSE 0)

----------------------------------------------------------------------------
(* The poll scheduler: start(), stop() and the three updater coroutines *)

Loops == {"receiver", "stats", "aircraft"}

\* the order in which stop() goes through the task attributes
StopOrder == <<"receiver", "stats", "aircraft">>

\* receiver.json as an object with optional lat and lon
ReceiverDocs == {
    [version |-> 1, lat |-> 0, lon |-> 0],
    [version |-> 1, lat |-> 1],
    NoFields
}

\* the documents the polled endpoints serve
ServedStats == {QuietStats(1), WithoutGroup(FullStats(1), "total", "cpr"),
                WithoutPeriod(FullStats(2), "last1min")}

ServedAircraft == {
    AircraftDoc(<<>>),
    AircraftDoc(<<[hex |-> "a3", seen |-> 1, seen_pos |-> 2, lat |-> 0, lon |-> 1],
                  [hex |-> "a1", seen |-> 1]>>),
    AircraftDoc(<<[hex |-> "a8", seen |-> 1, seen_pos |-> 1]>>),
    AircraftDoc(<<[hex |-> "a3", seen |-> 1, seen_pos |-> 2, lat |-> 0, lon |-> 1],
                  [hex |-> "a5", seen |-> 1, seen_pos |-> 1, lat |-> 2, lon |-> -1,
                   mlat |-> <<"lat", "lon">>]>>)
}

Served(loop) ==
    CASE loop = "receiver" -> ReceiverDocs
      [] loop = "stats" -> ServedStats
      [] loop = "aircraft" -> ServedAircraft

WellFormed(loop, doc) ==
    CASE loop = "receiver" -> TRUE
      [] loop = "stats" -> WellFormedStats(doc)
      [] loop = "aircraft" -> WellFormedAircraft(doc)

\* how a GET can end: a 200 with a JSON body, asyncio.TimeoutError,
\* aiohttp.ClientError, or anything else (another status, a body that is no JSON)
HttpKinds == {"ok", "timeout", "client", "other"}

\* how reading a file can end: its parsed content, or OSError / a parse error
FileKinds == {"ok", "io"}

InitHttp == [total |-> NoSamples, errors |-> NoSamples, durations |-> NoSamples]

\* Counter.inc(labels)
CounterInc(metric, labels) == MetricSet(metric, labels, DefaultGet(metric, labels) + 1)

ResourceLabels(loop) == Label("resource", loop)

ErrorLabels(loop, error) == <<<<"resource", loop>>, <<"error", error>>>>

\* _fetch up to its await: labels, start, metrics["http"]["total"].inc(labels)
FetchBegun(h, loop) == [h EXCEPT !.total = CounterInc(@, ResourceLabels(loop))]

\* FetchErrors altered to count a timeout under two label sets
\* (sensitivity of C27)
C27_Mutant_FetchErrors(errors, loop, kind) ==
    CASE kind = "timeout" ->
            CounterInc(CounterInc(errors, ErrorLabels(loop, "timeout")),
                       ResourceLabels(loop))
      [] kind = "client" -> CounterInc(errors, ResourceLabels(loop))
      [] OTHER -> errors

\* the except clauses of _fetch
FetchErrors(errors, loop, kind) ==
    CASE kind = "timeout" -> CounterInc(errors, ErrorLabels(loop, "timeout"))
      \* error_labels is built and then labels is what is counted
      [] kind = "client" -> CounterInc(errors, ResourceLabels(loop))
      [] OTHER -> errors

\* the finally clause of _fetch (elapsed time is not modelled)
FetchFinally(h, loop) ==
    [h EXCEPT !.durations = HistogramObserve(@, ResourceLabels(loop), 0)]

\* _fetch from its await on: the except and finally clauses
FetchEnded(h, loop, kind) ==
    FetchFinally([h EXCEPT !.errors = FetchErrors(@, loop, kind)], loop)

\* FetchResult altered to hand the body over whatever the outcome
\* (sensitivity of C5)
C5_Mutant_FetchResult(kind, doc) == [raised |-> FALSE, data |-> doc]

\* what _fetch hands to its caller: the parsed body of a 200, or an exception
FetchResult(kind, doc) ==
    IF kind = "ok" THEN [raised |-> FALSE, data |-> doc]
    ELSE [raised |-> TRUE, data |-> NoFields]

\* ReceiverOrigin altered to be content with lat alone (sensitivity of C6)
C6_Mutant_ReceiverOrigin(receiver, old) ==
    IF receiver # NoFields /\ "lat" \in DOMAIN receiver
    THEN Some(Position(receiver["lat"],
                       IF "lon" \in DOMAIN receiver THEN receiver["lon"] ELSE 0))
    ELSE old

\* ReceiverOrigin altered to forget the origin when the document has no
\* lat and lon (sensitivity of C25)
C25_Mutant_ReceiverOrigin(receiver, old) ==
    IF receiver # NoFields /\ "lat" \in DOMAIN receiver /\ "lon" \in DOMAIN receiver
    THEN Some(Position(receiver["lat"], receiver["lon"]))
    ELSE None

\* the try block of updater_receiver after a fetch that returned
ReceiverOrigin(receiver, old) ==
    IF receiver # NoFields /\ "lat" \in DOMAIN receiver /\ "lon" \in DOMAIN receiver
    THEN Some(Position(receiver["lat"], receiver["lon"]))
    ELSE old

\* AfterBody altered to let an exception leave the loop (sensitivity of C1)
C1_Mutant_AfterBody(raised) == IF raised THEN "Crashed" ELSE "Sleeping"

\* except Exception: logger.error(...), and then the sleep of the loop
AfterBody(raised) == "Sleeping"

CyclesBegun ==
    cycles["receiver"] + cycles["stats"] + cycles["aircraft"]
    + Cardinality({l \in Loops : pc[l] = "Fetching"})

ReducersUnchanged == UNCHANGED reducerVars

\* the try block of an updater once _fetch has ended with `kind`, and the
\* except clause around it: what the cycle does to the exporter
CycleEffects(loop, kind, doc) ==
    LET result == FetchResult(kind, doc)
        Ends(raised) ==
            lastBody' = [loop |-> loop, kind |-> kind, raised |-> raised]
    IN
    /\ cycles' = [cycles EXCEPT ![loop] = @ + 1]
    /\ fixture' = (fixture /\ kind = "ok" /\ WellFormed(loop, doc))
    /\ IF result.raised THEN
            /\ UNCHANGED <<origin, reducerVars, receiverDoc>>
            /\ Ends(TRUE)
       ELSE
            CASE loop = "receiver" ->
                    /\ origin' = ReceiverOrigin(result.data, origin)
                    /\ receiverDoc' = result.data
                    /\ ReducersUnchanged
                    /\ Ends(FALSE)
              [] loop = "stats" ->
                    /\ CallProcessStats(result.data)
                    /\ UNCHANGED <<origin, receiverDoc, aircraftMetrics, aircraftDoc,
                                   aircraftRaised, aircraftCalls, recordsFed>>
                    /\ Ends(statsRaised')
              [] loop = "aircraft" ->
                    /\ CallProcessAircraft(result.data)
                    /\ UNCHANGED <<origin, receiverDoc, statsMetrics, statsDoc,
                                   statsRaised, statsWarned, statsCalls>>
                    /\ Ends(aircraftRaised')

\* the cycle of the task the attribute of the loop holds: the task goes on
\* to its sleep
Body(loop, kind, doc) ==
    /\ CycleEffects(loop, kind, doc)
    /\ pc' = [pc EXCEPT ![loop] = AfterBody(lastBody'.raised)]

\* BeginFetch altered to start a fetch while the previous one is in flight
\* (sensitivity of C16)
C16_Mutant_BeginFetch(loop, max) ==
    /\ resource_is_http
    /\ pc[loop] \in {"Idle", "Sleeping", "Fetching"}
    /\ ~must_cancel[loop]
    /\ cycles["receiver"] + cycles["stats"] + cycles["aircraft"] < max
    /\ DefaultGet(http.total, ResourceLabels(loop)) < max
    /\ pc' = [pc EXCEPT ![loop] = "Fetching"]
    /\ http' = FetchBegun(http, loop)
    /\ UNCHANGED <<origin, reducerVars, configVars, svr, task, must_cancel, cycles,
                   lastBody, receiverDoc, fixture, callerVars>>
    /\ UNCHANGED <<clockVars, callVars, orphans>>

\* a task is run for the first time, or its sleep has elapsed: the loop
\* starts a cycle and _fetch runs up to the await of the GET
BeginFetch(loop, max) ==
    /\ resource_is_http
    /\ pc[loop] \in {"Idle", "Sleeping"}
    /\ ~must_cancel[loop]
    /\ CyclesBegun < max
    /\ pc' = [pc EXCEPT ![loop] = "Fetching"]
    /\ http' = FetchBegun(http, loop)
    /\ UNCHANGED <<origin, reducerVars, configVars, svr, task, must_cancel, cycles,
                   lastBody, receiverDoc, fixture, callerVars>>
    /\ UNCHANGED <<clockVars, callVars, orphans>>

\* the GET ends: the rest of _fetch, the rest of the try block, the sleep
FetchDone(loop) ==
    /\ pc[loop] = "Fetching"
    /\ ~must_cancel[loop]
    /\ \E kind \in HttpKinds, doc \in Served(loop) :
            /\ http' = FetchEnded(http, loop, kind)
            /\ Body(loop, kind, doc)
    /\ UNCHANGED <<configVars, svr, task, must_cancel, callerVars>>
    /\ UNCHANGED <<clockVars, callVars, orphans>>

\* a whole cycle on a file resource: open() and json.loads() do not await
FileCycle(loop, max) ==
    /\ ~resource_is_http
    /\ pc[loop] \in {"Idle", "Sleeping"}
    /\ ~must_cancel[loop]
    /\ CyclesBegun < max
    /\ \E kind \in FileKinds, doc \in Served(loop) : Body(loop, kind, doc)
    /\ UNCHANGED <<configVars, svr, http, task, must_cancel, callerVars>>
    /\ UNCHANGED <<clockVars, callVars, orphans>>

\* Cancelled altered so that the except clause of the loop swallows a
\* cancellation that arrives during the fetch (sensitivity of C15)
C15_Mutant_Cancelled(loop) ==
    /\ must_cancel[loop]
    /\ pc[loop] \in {"Idle", "Fetching", "Sleeping"}
    /\ pc' = [pc EXCEPT ![loop] = IF pc[loop] = "Fetching" THEN "Sleeping" ELSE "Stopped"]
    /\ must_cancel' = [must_cancel EXCEPT ![loop] = FALSE]
    /\ IF pc[loop] = "Fetching" THEN
            /\ http' = FetchFinally(http, loop)
            /\ cycles' = [cycles EXCEPT ![loop] = @ + 1]
            /\ fixture' = FALSE
       ELSE UNCHANGED <<http, cycles, fixture>>
    /\ UNCHANGED <<origin, reducerVars, configVars, svr, task, lastBody, receiverDoc, callerVars>>
    /\ UNCHANGED <<clockVars, callVars, orphans>>

\* asyncio.CancelledError is thrown into the task where it is suspended; it
\* is no Exception, so the except clause of the loop lets it through
Cancelled(loop) ==
    /\ must_cancel[loop]
    /\ pc[loop] \in {"Idle", "Fetching", "Sleeping"}
    /\ pc' = [pc EXCEPT ![loop] = "Stopped"]
    /\ must_cancel' = [must_cancel EXCEPT ![loop] = FALSE]
    /\ IF pc[loop] = "Fetching" THEN
            \* the finally clause of _fetch runs; the cycle ends without a document
            /\ http' = FetchFinally(http, loop)
            /\ cycles' = [cycles EXCEPT ![loop] = @ + 1]
            /\ fixture' = FALSE
       ELSE UNCHANGED <<http, cycles, fixture>>
    /\ UNCHANGED <<origin, reducerVars, configVars, svr, task, lastBody, receiverDoc, callerVars>>
    /\ UNCHANGED <<clockVars, callVars, orphans>>

\* start(), called on an exporter that is not running
Start ==
    /\ stop_pc = "idle"
    /\ \A loop \in Loops : task[loop] = "None"
    /\ svr' = "running"
    /\ task' = [loop \in Loops |-> "Task"]
    /\ pc' = [loop \in Loops |-> "Idle"]
    /\ must_cancel' = [loop \in Loops |-> FALSE]
    /\ UNCHANGED <<origin, reducerVars, configVars, http, cycles, lastBody, receiverDoc, fixture, stop_pc, stop_raised>>
    /\ UNCHANGED <<clockVars, callVars, orphans>>

\* TaskDone altered so that stop() does not wait for the task
\* (sensitivity of C2)
C2_Mutant_TaskDone(loop) == TRUE

\* whether awaiting the task returns (or raises) now
TaskDone(loop) == pc[loop] \in {"Stopped", "Crashed"}

\* AfterAwait altered so that stop() keeps the task handle (sensitivity of C3)
C3_Mutant_AfterAwait == "Task"

\* what stop() stores in the task attribute after its await
AfterAwait == "None"

\* the task attributes from position i of StopOrder on that are not None
Pending(i) == {j \in i..Len(StopOrder) : task[StopOrder[j]] # "None"}

\* stop() runs from the if of position i to its next await: it cancels the
\* first task it finds and awaits it, or awaits self.svr.stop()
StopRunsFrom(i, tasks) ==
    LET pending == {j \in i..Len(StopOrder) : tasks[StopOrder[j]] # "None"} IN
    IF pending = {} THEN
        /\ stop_pc' = "svr_stop"
        /\ UNCHANGED must_cancel
    ELSE
        LET j == CHOOSE k \in pending : \A m \in pending : k <= m
            loop == StopOrder[j]
        IN  /\ stop_pc' = loop
            /\ must_cancel' = [must_cancel EXCEPT ![loop] = ~TaskDone(loop)]

PositionOf(loop) == CHOOSE i \in 1..Len(StopOrder) : StopOrder[i] = loop

\* stop() is called
StopCall ==
    /\ stop_pc = "idle"
    /\ StopRunsFrom(1, task)
    /\ stop_raised' = FALSE
    /\ UNCHANGED <<origin, reducerVars, configVars, svr, http, task, pc, cycles,
                   lastBody, receiverDoc, fixture>>
    /\ UNCHANGED <<clockVars, callVars, orphans>>

\* the awaited task has ended: with CancelledError, which stop() passes over,
\* or with another exception, which leaves stop()
StopAwaited(loop) ==
    /\ stop_pc = loop
    /\ TaskDone(loop)
    /\ IF pc[loop] = "Crashed" THEN
            /\ stop_pc' = "idle"
            /\ stop_raised' = TRUE
            /\ UNCHANGED <<task, must_cancel>>
       ELSE
            /\ task' = [task EXCEPT ![loop] = AfterAwait]
            /\ StopRunsFrom(PositionOf(loop) + 1, task')
            /\ UNCHANGED stop_raised
    /\ UNCHANGED <<origin, reducerVars, configVars, svr, http, pc, cycles, lastBody, receiverDoc, fixture>>
    /\ UNCHANGED <<clockVars, callVars, orphans>>

\* await self.svr.stop() returns, and stop() with it
SvrStop ==
    /\ stop_pc = "svr_stop"
    /\ svr' = "stopped"
    /\ stop_pc' = "idle"
    /\ UNCHANGED <<origin, reducerVars, configVars, http, taskVars, stop_raised>>
    /\ UNCHANGED <<clockVars, callVars, orphans>>

InitScheduler ==
    /\ svr = "new"
    /\ http = InitHttp
    /\ task = [loop \in Loops |-> "None"]
    /\ pc = [loop \in Loops |-> "NotStarted"]
    /\ must_cancel = [loop \in Loops |-> FALSE]
    /\ cycles = [loop \in Loops |-> 0]
    /\ lastBody = [loop |-> "none", kind |-> "none", raised |-> FALSE]
    /\ receiverDoc = NoFields
    /\ fixture = TRUE
    /\ stop_pc = "idle"
    /\ stop_raised = FALSE
    /\ now = 0
    /\ cycle_start = [loop \in Loops |-> 0]
    /\ wait_seconds = [loop \in Loops |-> 0]
    /\ wake = [loop \in Loops |-> 0]
    /\ arg_distance = 0
    /\ ret_bucket = "none"
    /\ arg_pos1 = Position(0, 0)
    /\ arg_pos2 = Position(0, 0)
    /\ ret_angle = 0
    /\ ret_bearing = "none"
    /\ orphans = {}

\* Dump1090Exporter(resource_path, origin=...)
Init ==
    /\ InitReducers
    /\ origin \in {None, Some(Position(1, 0))}
    /\ configured_origin = origin
    /\ resource_is_http \in BOOLEAN
    /\ InitScheduler

Next ==
    \/ Start
    \/ StopCall
    \/ \E loop \in Loops : StopAwaited(loop)
    \/ SvrStop
    \/ \E loop \in Loops : BeginFetch(loop, MaxCycles)
    \/ \E loop \in Loops : FetchDone(loop)
    \/ \E loop \in Loops : FileCycle(loop, MaxCycles)
    \/ \E loop \in Loops : Cancelled(loop)

Spec == Init /\ [][Next]_vars

\* the exporter is started and polls; stop() is not called
NextPolling ==
    \/ Start
    \/ \E loop \in Loops : BeginFetch(loop, MaxPolls)
    \/ \E loop \in Loops : FetchDone(loop)
    \/ \E loop \in Loops : FileCycle(loop, MaxPolls)

SpecPolling == Init /\ [][NextPolling]_vars

----------------------------------------------------------------------------
(* The statistics reducer on its own: process_stats called on documents *)

\* an exporter that is not started, reading files, with no origin
InitNotStarted ==
    /\ configured_origin = origin
    /\ resource_is_http = FALSE
    /\ InitScheduler

InitStats == InitReducers /\ origin = None /\ InitNotStarted

ReduceStats ==
    /\ statsCalls < MaxStatsCalls
    /\ \E stats \in StatsDocs : CallProcessStats(stats)
    /\ UNCHANGED <<origin, aircraftMetrics, aircraftDoc, aircraftRaised,
                   aircraftCalls, recordsFed, schedulerVars>>
    /\ UNCHANGED <<clockVars, callVars, orphans>>

SpecStats == InitStats /\ [][ReduceStats]_vars

----------------------------------------------------------------------------
(* The aircraft aggregator on its own: process_aircraft called on documents *)

InitAircraft == InitReducers /\ InitOrigin /\ InitNotStarted

ReduceAircraft ==
    /\ aircraftCalls < MaxAircraftCalls
    /\ \E aircraft \in {AircraftDoc(q) :
                            q \in SeqsUpTo(AircraftRecords, MaxRecords - recordsFed)}
                        \cup {NoFields} :
            CallProcessAircraft(aircraft)
    /\ UNCHANGED <<origin, statsMetrics, statsDoc, statsRaised, statsWarned,
                   statsCalls, schedulerVars>>
    /\ UNCHANGED <<clockVars, callVars, orphans>>

SpecAircraft == InitAircraft /\ [][ReduceAircraft]_vars


----------------------------------------------------------------------------
(* start() on an exporter that is running, on file resources *)

\* the tasks that run: created, and neither cancelled to their end nor ended
Running(loop) == task[loop] # "None" /\ pc[loop] \in {"Idle", "Sleeping", "Fetching"}

\* start() is called again with no stop() in between and self.svr.start()
\* returns (when it raises, start() raises before it creates a task and
\* nothing changes): the three attributes receive new tasks, and the tasks
\* they held run on with nothing left to cancel them
StartAgain ==
    /\ stop_pc = "idle"
    /\ \E loop \in Loops : task[loop] # "None"
    /\ svr' = "running"
    /\ orphans' = orphans \cup {loop \in Loops : Running(loop)}
    /\ task' = [loop \in Loops |-> "Task"]
    /\ pc' = [loop \in Loops |-> "Idle"]
    /\ must_cancel' = [loop \in Loops |-> FALSE]
    /\ UNCHANGED <<origin, reducerVars, configVars, http, cycles, lastBody, receiverDoc,
                   fixture, stop_pc, stop_raised, clockVars, callVars>>

\* a whole cycle, on a file resource, of a task that no attribute holds
OrphanCycle(loop) ==
    /\ loop \in orphans
    /\ ~resource_is_http
    /\ CyclesBegun < MaxRestartCycles
    /\ \E kind \in FileKinds, doc \in Served(loop) : CycleEffects(loop, kind, doc)
    /\ UNCHANGED <<configVars, svr, http, task, pc, must_cancel, callerVars,
                   clockVars, callVars, orphans>>

InitRestart ==
    /\ InitReducers
    /\ origin \in {None, Some(Position(1, 0))}
    /\ InitNotStarted

NextRestart ==
    \/ Start
    \/ StartAgain
    \/ StopCall
    \/ \E loop \in Loops : StopAwaited(loop)
    \/ SvrStop
    \/ \E loop \in Loops : FileCycle(loop, MaxRestartCycles)
    \/ \E loop \in Loops : Cancelled(loop)
    \/ \E loop \in Loops : OrphanCycle(loop)

SpecRestart == InitRestart /\ [][NextRestart]_vars

----------------------------------------------------------------------------
(* The geometry functions on their own: called on distances and positions *)

\* buckets=[80000, 160000, 240000, 320000, 400000] of the range histogram,
\* in tenths of a metre
HistogramBuckets == <<800000, 1600000, 2400000, 3200000, 4000000>>

\* distances at and around the bucket bounds, and the longest of the table
Distances ==
    {d \in {bound + offset :
                bound \in {0} \cup {HistogramBuckets[i] : i \in 1..Len(HistogramBuckets)},
                offset \in (-MaxOffset)..MaxOffset} : d >= 0}
    \cup {6482996}

Longitudes == -2..3

Positions == {Position(lat, lon) : lat \in Latitudes, lon \in Longitudes}

InitCalls == InitReducers /\ origin = None /\ InitNotStarted

\* distance_bucket(distance)
CallDistanceBucket ==
    /\ \E distance \in Distances :
            /\ arg_distance' = distance
            /\ ret_bucket' = distance_bucket(distance)
    /\ UNCHANGED <<origin, reducerVars, schedulerVars, clockVars, orphans,
                   arg_pos1, arg_pos2, ret_angle, ret_bearing>>

SpecBucket == InitCalls /\ [][CallDistanceBucket]_vars

\* relative_bearing(relative_angle(pos1, pos2))
CallRelativeAngle ==
    /\ \E pos1 \in Positions, pos2 \in Positions :
            /\ arg_pos1' = pos1
            /\ arg_pos2' = pos2
            /\ ret_angle' = relative_angle(pos1, pos2)
            /\ ret_bearing' = relative_bearing(ret_angle')
    /\ UNCHANGED <<origin, reducerVars, schedulerVars, clockVars, orphans,
                   arg_distance, ret_bucket>>

SpecBearing == InitCalls /\ [][CallRelativeAngle]_vars

----------------------------------------------------------------------------
(* The three loops with their clock: start, end, wait_seconds and the sleep *)

\* IntervalOf altered to test the origin the exporter was configured with
\* (sensitivity of C18)
C18_Mutant_IntervalOf(loop, org) ==
    CASE loop = "receiver" ->
            IF configured_origin # None THEN receiver_interval_origin_ok
            ELSE receiver_interval
      [] loop = "stats" -> stats_interval
      [] loop = "aircraft" -> aircraft_interval

\* the interval a loop adds to `start`; the receiver loop tests self.origin
\* after its try block (a Position is a non-empty tuple, hence never falsy)
IntervalOf(loop, org) ==
    CASE loop = "receiver" ->
            IF org # None THEN receiver_interval_origin_ok ELSE receiver_interval
      [] loop = "stats" -> stats_interval
      [] loop = "aircraft" -> aircraft_interval

\* WaitSeconds altered to measure the sleep from the end of the body
\* (sensitivity of C17)
C17_Mutant_WaitSeconds(start, interval, end) == interval

\* (start + interval - end).total_seconds()
WaitSeconds(start, interval, end) == start + interval - end

\* when `await asyncio.sleep(delay)`, called at `end`, returns: asyncio.sleep
\* gives way once and returns for a delay that is not positive
SleepReturns(end, delay) == IF delay <= 0 THEN end ELSE end + delay

\* end = datetime.now(), wait_seconds = ..., await asyncio.sleep(wait_seconds)
\* of the loop whose cycle began at `start`
SleepBegins(loop, start, end) ==
    /\ wait_seconds' = [wait_seconds EXCEPT
                            ![loop] = WaitSeconds(start, IntervalOf(loop, origin'), end)]
    /\ wake' = [wake EXCEPT ![loop] = SleepReturns(end, wait_seconds'[loop])]

\* the documents and the outcomes of a GET that the timed loops are fed
TimedServed(loop) ==
    CASE loop = "receiver" -> {[version |-> 1, lat |-> 0, lon |-> 0], NoFields}
      [] loop = "stats" -> {QuietStats(1)}
      [] loop = "aircraft" -> {AircraftDoc(<<[hex |-> "a1", seen |-> 1]>>)}

TimedKinds == {"ok", "timeout"}

\* the sleep of the loop, if it is in one, has run out
SleepElapsed(loop) == pc[loop] = "Sleeping" => now >= wake[loop]

\* a second passes; the clock counts from the call of start()
Tick ==
    /\ svr = "running"
    /\ now < MaxTime
    /\ now' = now + 1
    /\ UNCHANGED <<origin, reducerVars, schedulerVars, cycle_start, wait_seconds, wake>>
    /\ UNCHANGED <<callVars, orphans>>

\* BeginFetch with the clock: start = datetime.now() and _fetch up to its await
TimedBeginFetch(loop) ==
    /\ resource_is_http
    /\ pc[loop] \in {"Idle", "Sleeping"}
    /\ SleepElapsed(loop)
    /\ ~must_cancel[loop]
    /\ CyclesBegun < MaxTimedCycles
    /\ cycle_start' = [cycle_start EXCEPT ![loop] = now]
    /\ pc' = [pc EXCEPT ![loop] = "Fetching"]
    /\ http' = FetchBegun(http, loop)
    /\ UNCHANGED <<origin, reducerVars, configVars, svr, task, must_cancel, cycles,
                   lastBody, receiverDoc, fixture, callerVars>>
    /\ UNCHANGED <<now, wait_seconds, wake>>
    /\ UNCHANGED <<callVars, orphans>>

\* FetchDone with the clock: the rest of the cycle up to the await of the sleep
TimedFetchDone(loop) ==
    /\ pc[loop] = "Fetching"
    /\ ~must_cancel[loop]
    /\ \E kind \in TimedKinds, doc \in TimedServed(loop) :
            /\ http' = FetchEnded(http, loop, kind)
            /\ Body(loop, kind, doc)
    /\ SleepBegins(loop, cycle_start[loop], now)
    /\ UNCHANGED <<configVars, svr, task, must_cancel, callerVars>>
    /\ UNCHANGED <<now, cycle_start>>
    /\ UNCHANGED <<callVars, orphans>>

\* FileCycle with the clock: the cycle does not await before its sleep, and
\* `elapsed` seconds pass between its two datetime.now()
TimedFileCycle(loop) ==
    /\ ~resource_is_http
    /\ pc[loop] \in {"Idle", "Sleeping"}
    /\ SleepElapsed(loop)
    /\ ~must_cancel[loop]
    /\ CyclesBegun < MaxTimedCycles
    /\ \E kind \in FileKinds, doc \in TimedServed(loop) : Body(loop, kind, doc)
    /\ \E elapsed \in 0..(MaxTime - now) :
            /\ now' = now + elapsed
            /\ cycle_start' = [cycle_start EXCEPT ![loop] = now]
            /\ SleepBegins(loop, now, now + elapsed)
    /\ UNCHANGED <<configVars, svr, http, task, must_cancel, callerVars>>
    /\ UNCHANGED <<callVars, orphans>>

NextTiming ==
    \/ Start
    \/ Tick
    \/ \E loop \in Loops : TimedBeginFetch(loop)
    \/ \E loop \in Loops : TimedFetchDone(loop)
    \/ \E loop \in Loops : TimedFileCycle(loop)

SpecTiming == Init /\ [][NextTiming]_vars


----------------------------------------------------------------------------
(* Properties of the poll scheduler *)

\* the step ends a loop body of `loop`: _fetch has ended and the try block
\* with its except clause was run (a cancelled fetch ends no body)
BodyEnds(loop) == cycles'[loop] = cycles[loop] + 1 /\ ~must_cancel[loop]

\* the step is a call of start()
IsStart == svr # "running" /\ svr' = "running"

\* C1: in each of the three loops a cycle whose fetch fails or whose
\* reduction raises does not end the loop and does not touch the other two
\* loops: the loop goes to its sleep, from where its next fetch starts; no
\* loop ever ends other than by cancellation.
C1_LoopsSurviveFailures ==
    /\ [](\A loop \in Loops : pc[loop] # "Crashed")
    /\ [][\A loop \in Loops :
            BodyEnds(loop) =>
                /\ pc'[loop] = "Sleeping"
                /\ task'[loop] = task[loop]
                /\ \A other \in Loops \ {loop} :
                        /\ pc'[other] = pc[other]
                        /\ task'[other] = task[other]
                        /\ must_cancel'[other] = must_cancel[other]
                        /\ cycles'[other] = cycles[other]]_vars
    /\ [][\A loop \in Loops :
            pc[loop] # "Stopped" /\ pc'[loop] = "Stopped" => must_cancel[loop]]_vars

\* the statistics loop has begun its next fetch after a cycle whose reduction raised
C1_Witness ==
    /\ lastBody = [loop |-> "stats", kind |-> "ok", raised |-> TRUE]
    /\ statsRaised
    /\ pc["stats"] = "Fetching"

C3_SecondStopIsNoOp ==
    /\ [](~stop_raised)
    /\ [][svr = "stopped" /\ stop_pc' # stop_pc =>
            /\ stop_pc' \in {"svr_stop", "idle"}
            /\ UNCHANGED <<svr, task, must_cancel, pc, cycles, origin, statsMetrics,
                           aircraftMetrics, http>>]_vars
    /\ [](svr = "stopped" =>
            /\ stop_pc \in {"svr_stop", "idle"}
            /\ \A loop \in Loops : task[loop] = "None" /\ ~must_cancel[loop])

\* the second stop() in a row is running on an exporter that was started
C3_Witness ==
    /\ svr = "stopped"
    /\ stop_pc = "svr_stop"
    /\ ~stop_raised
    /\ \A loop \in Loops : pc[loop] = "Stopped"

\* the exporter was given an origin, every loop has ended a cycle and every
\* cycle ended so far fetched a well-formed document
OneCycleEach ==
    /\ configured_origin # None
    /\ fixture
    /\ \A loop \in Loops : cycles[loop] >= 1

AircraftRows == {"observed", "observed_with_pos", "observed_with_mlat", "max_range"}

\* the records of the last aircraft document whose position is counted
\* whatever is made of a seen_pos of 0
WithRecentPosition(doc) ==
    {i \in 1..Len(doc["aircraft"]) :
        LET a == Normalised(doc["aircraft"][i]) IN
        /\ a["seen_pos"] # None
        /\ 0 < Value(a["seen_pos"])
        /\ Value(a["seen_pos"]) < Threshold}

\* the records of the document that carry a seen_pos at all
WithAnyPosition(doc) ==
    {i \in 1..Len(doc["aircraft"]) : "seen_pos" \in DOMAIN doc["aircraft"][i]}

C5_FailedFetchKeepsValues ==
    [][\A loop \in {"stats", "aircraft"} :
            BodyEnds(loop) /\ lastBody'.kind # "ok" =>
                /\ lastBody'.raised
                /\ UNCHANGED <<statsMetrics, aircraftMetrics, statsCalls,
                               aircraftCalls, statsDoc, aircraftDoc, origin>>]_vars

\* a statistics fetch has failed after a statistics cycle that set the instruments
C5_Witness ==
    /\ lastBody.loop = "stats"
    /\ lastBody.kind \in {"timeout", "client", "other", "io"}
    /\ statsCalls = 1
    /\ ~statsRaised
    /\ cycles["stats"] = 2

\* the step ends a receiver cycle whose fetch returned a document
ReceiverFetched == BodyEnds("receiver") /\ lastBody'.kind = "ok"

\* the document the receiver loop fetched in this step has both lat and lon
BothPresent ==
    receiverDoc' # NoFields /\ {"lat", "lon"} \subseteq DOMAIN receiverDoc'

\* C6: the origin changes only in a receiver cycle whose fetch succeeded on
\* a document with both lat and lon, and such a cycle makes it (lat, lon) of
\* the document; every other step leaves the origin as it is.
C6_OriginOnlyFromReceiver ==
    /\ [][origin' # origin => ReceiverFetched /\ BothPresent]_vars
    /\ [][ReceiverFetched =>
            IF BothPresent
            THEN origin' = Some(Position(receiverDoc'["lat"], receiverDoc'["lon"]))
            ELSE origin' = origin]_vars

\* a receiver cycle has replaced the origin the exporter was given
C6_Witness ==
    /\ configured_origin # None
    /\ origin = Some(Position(0, 0))
    /\ receiverDoc = [version |-> 1, lat |-> 0, lon |-> 0]

\* C15: a loop whose cancellation was requested is suspended in its first
\* step, its fetch or its sleep, and the only step it takes from there is to
\* end: it ends no loop body and begins no fetch; a loop reaches Stopped
\* only by a cancellation, and no call of stop() raises.
C15_CancellationEndsLoop ==
    /\ [](\A loop \in Loops :
            must_cancel[loop] => pc[loop] \in {"Idle", "Fetching", "Sleeping"})
    /\ [][\A loop \in Loops :
            must_cancel[loop] =>
                /\ pc'[loop] \in {pc[loop], "Stopped"}
                /\ pc'[loop] = "Stopped" <=> ~must_cancel'[loop]
                /\ lastBody' = lastBody \/ lastBody'.loop # loop
                /\ cycles'[loop] # cycles[loop] =>
                        pc[loop] = "Fetching" /\ pc'[loop] = "Stopped"]_vars
    /\ [][\A loop \in Loops :
            pc'[loop] = "Stopped" /\ pc[loop] # "Stopped" =>
                must_cancel[loop] /\ stop_pc = loop]_vars
    /\ [](stop_pc = "idle" => ~stop_raised)

\* a statistics loop was cancelled during its first fetch and stop() has
\* gone on to the next loop
C15_Witness ==
    /\ resource_is_http
    /\ pc["stats"] = "Stopped"
    /\ cycles["stats"] = 1
    /\ statsCalls = 0
    /\ lastBody.loop # "stats"
    /\ http.durations[ResourceLabels("stats")].n = 1
    /\ stop_pc = "aircraft"
    /\ ~stop_raised

\* the requests of the loop counted in the request counter, and those whose
\* duration was observed
Requested(loop) == DefaultGet(http.total, ResourceLabels(loop))

Answered(loop) ==
    IF ResourceLabels(loop) \in DOMAIN http.durations
    THEN http.durations[ResourceLabels(loop)].n ELSE 0

----------------------------------------------------------------------------
(* Properties of the sleeps between cycles *)

\* the intervals the loop can add to `start`
IntervalsOf(loop) ==
    CASE loop = "receiver" -> {receiver_interval, receiver_interval_origin_ok}
      [] loop = "stats" -> {stats_interval}
      [] loop = "aircraft" -> {aircraft_interval}

\* the step begins a cycle of `loop` out of its sleep
BeginsAfterSleep(loop) ==
    /\ pc[loop] = "Sleeping"
    /\ pc'[loop] = "Fetching" \/ cycles'[loop] = cycles[loop] + 1

\* the seconds between the two datetime.now() of the cycle the step ends
BodyDuration(loop) == now' - cycle_start'[loop]

AtLeastZero(seconds) == IF seconds < 0 THEN 0 ELSE seconds

\* C17: in every loop the sleep after a cycle is measured from the start of
\* that cycle: it is asked to last max(0, interval - body duration), so a body
\* that outlasts the interval is followed by no sleep at all; the next cycle
\* does not begin before the sleep has run out, it takes the time it begins
\* at as its own start, and so two cycles of one loop never begin less than
\* an interval apart (missed ticks are not made up by a burst)
C17_SleepFromCycleStart ==
    [][\A loop \in Loops :
        /\ BodyEnds(loop) =>
                \E interval \in IntervalsOf(loop) :
                    wake'[loop] - now' = AtLeastZero(interval - BodyDuration(loop))
        /\ BeginsAfterSleep(loop) =>
                /\ now >= wake[loop]
                /\ cycle_start'[loop] = now
                /\ \E interval \in IntervalsOf(loop) :
                        now >= cycle_start[loop] + interval]_vars

\* a loop has run two cycles and the body of the second outlasted the
\* interval: its sleep returns at the second the body ended
C17_Witness ==
    \E loop \in Loops :
        /\ cycles[loop] = 2
        /\ pc[loop] = "Sleeping"
        /\ wait_seconds[loop] < 0
        /\ cycle_start[loop] > 0
        /\ wake[loop] = now

\* the interval the sleep of the receiver cycle the step ends is measured with
IntervalUsed == wait_seconds'["receiver"] + BodyDuration("receiver")

\* C18: the sleep after a receiver cycle is measured with
\* receiver_interval_origin_ok if and only if the origin is set when the body
\* of that cycle has ended (by that cycle, by an earlier one or by the
\* configuration), and with receiver_interval otherwise
C18_IntervalFollowsOrigin ==
    [][BodyEnds("receiver") =>
            /\ origin' # None => IntervalUsed = receiver_interval_origin_ok
            /\ origin' = None => IntervalUsed = receiver_interval]_vars

\* no origin was configured, the first receiver cycle has extracted one and
\* its sleep runs out receiver_interval_origin_ok after its start
C18_Witness ==
    /\ configured_origin = None
    /\ origin # None
    /\ cycles["receiver"] = 1
    /\ pc["receiver"] = "Sleeping"
    /\ now > cycle_start["receiver"]
    /\ wake["receiver"] = cycle_start["receiver"] + receiver_interval_origin_ok

----------------------------------------------------------------------------
(* Properties of the statistics reducer *)

\* the row's period, group object and field are found in the document
FieldAbsent(doc, row) ==
    /\ row.time_period \in DOMAIN doc
    /\ GroupPresent(doc[row.time_period], row.group)
    /\ Subscriptable(doc[row.time_period], row.group)
    /\ row.name \notin DOMAIN GroupObject(doc[row.time_period], row.group)

\* C7 as stated: after a reduction, every row whose field is absent from
\* its located group object holds the not-a-number sentinel, and a warning
\* was logged for it exactly when the field is neither signal nor peak_signal.
C7_AbsentFieldIsNaN ==
    statsCalls >= 1 =>
        \A i \in RowIndex :
            LET row == StatsRows[i] IN
            FieldAbsent(statsDoc, row) =>
                /\ NoLabels \in DOMAIN statsMetrics[RowKey(row)]
                /\ statsMetrics[RowKey(row)][NoLabels] = NaN
                /\ RowKey(row) \in statsWarned <=> WarnsWhenMissing(row.name)

\* C8 as stated: in a reduction every row whose own extraction does not
\* fail is processed, whatever happens to the other rows: its instrument is
\* what the pass over the row makes of it.
C8_RowsIndependent ==
    [][statsCalls' = statsCalls + 1 =>
            \A i \in RowIndex :
                LET row == StatsRows[i]
                    pass == RowPass(statsDoc', row, statsMetrics[RowKey(row)])
                IN  pass.ends \in {"set", "missing"} =>
                        statsMetrics'[RowKey(row)] = pass.metric]_vars

\* the document has no section for the row's time period
PeriodAbsent(doc, row) == row.time_period \notin DOMAIN doc

\* C20 as stated: in a reduction of a document that lacks a time-period
\* section, the rows of that period are skipped alone: their instruments are
\* as before (not set to not-a-number), the reduction does not raise, and
\* every row whose section is present is processed.
C20_AbsentPeriodSkippedAlone ==
    [][(/\ statsCalls' = statsCalls + 1
        /\ \E i \in RowIndex : PeriodAbsent(statsDoc', StatsRows[i])) =>
            /\ ~statsRaised'
            /\ \A i \in RowIndex :
                LET row == StatsRows[i]
                    pass == RowPass(statsDoc', row, statsMetrics[RowKey(row)])
                IN  /\ PeriodAbsent(statsDoc', row) =>
                            statsMetrics'[RowKey(row)] = statsMetrics[RowKey(row)]
                    /\ pass.ends \in {"set", "missing"} =>
                            statsMetrics'[RowKey(row)] = pass.metric]_vars

\* the value the document holds for the row; the row's field is present
FieldPresent(doc, row) ==
    /\ row.time_period \in DOMAIN doc
    /\ GroupPresent(doc[row.time_period], row.group)
    /\ Subscriptable(doc[row.time_period], row.group)
    /\ row.name \in DOMAIN GroupObject(doc[row.time_period], row.group)

FieldValue(doc, row) == GroupObject(doc[row.time_period], row.group)[row.name]

\* the label key under which the items of a sequence field are set
IndexKey(name) == IF name = "accepted" THEN "bit_errors" ELSE "data_format"

\* the instrument holds the samples of `labelled` and, under the label sets
\* it does not name, what it held before
SetExactly(old, new, labelled) ==
    /\ DOMAIN new = (DOMAIN old) \cup (DOMAIN labelled)
    /\ \A l \in DOMAIN labelled : new[l] = labelled[l]
    /\ \A l \in (DOMAIN old) \ (DOMAIN labelled) : new[l] = old[l]

\* the samples a present field gives, by the name of the field
SamplesOf(name, value) ==
    IF name \in {"accepted", "messages_by_df"} THEN
        [l \in {Label(IndexKey(name), i - 1) : i \in 1..Len(value.seq)} |->
            value.seq[l[1][2] + 1]]
    ELSE IF name = "gain_seconds" THEN
        [l \in {Label("dB", value.pairs[i][1]) : i \in 1..Len(value.pairs)} |->
            LET last == CHOOSE i \in 1..Len(value.pairs) :
                            /\ value.pairs[i][1] = l[1][2]
                            /\ \A j \in 1..Len(value.pairs) :
                                    value.pairs[j][1] = l[1][2] => j <= i
            IN  value.pairs[last][2]]
    ELSE
        [l \in {NoLabels} |-> IF value.shape = "scalar" THEN value.n ELSE Opaque]

\* the value has the shape the loop over a field of that name can walk
Walkable(name, value) ==
    CASE name \in {"accepted", "messages_by_df"} -> value.shape = "seq"
      [] name = "gain_seconds" -> value.shape = "pairs"
      [] OTHER -> TRUE

----------------------------------------------------------------------------
(* Properties of the aircraft aggregator *)

\* every record of the document carries a seen field
AllSeen(doc) ==
    /\ "aircraft" \in DOMAIN doc
    /\ \A i \in 1..Len(doc["aircraft"]) : "seen" \in DOMAIN doc["aircraft"][i]

SeenRecently(doc) ==
    {i \in 1..Len(doc["aircraft"]) : doc["aircraft"][i]["seen"] < Threshold}

\* C9 as stated: after an aggregation over a document with N records
\* having seen < threshold, observed is N, whatever the position fields of
\* the records and whether or not the origin is known.
C9_ObservedCountsSeen ==
    aircraftCalls >= 1 /\ AllSeen(aircraftDoc) =>
        /\ NoLabels \in DOMAIN aircraftMetrics["observed"]
        /\ aircraftMetrics["observed"][NoLabels] = Cardinality(SeenRecently(aircraftDoc))

\* the records with seen < threshold and a defined seen_pos < threshold
SeenWithPosition(doc) ==
    {i \in SeenRecently(doc) :
        /\ "seen_pos" \in DOMAIN doc["aircraft"][i]
        /\ doc["aircraft"][i]["seen_pos"] < Threshold}

\* those of them whose mlat value is present and contains lat
SeenWithMlat(doc) ==
    {i \in SeenWithPosition(doc) :
        /\ "mlat" \in DOMAIN doc["aircraft"][i]
        /\ \E j \in 1..Len(doc["aircraft"][i]["mlat"]) :
                doc["aircraft"][i]["mlat"][j] = "lat"}

\* C10 as stated: after an aggregation that ran to its end,
\* observed_with_pos is the number of records with seen < threshold and a
\* defined seen_pos < threshold, 0 included, and observed_with_mlat the
\* number of those whose mlat is present and contains lat.
C10_PositionCounts ==
    aircraftCalls >= 1 /\ AllSeen(aircraftDoc) /\ ~aircraftRaised =>
        /\ aircraftMetrics["observed_with_pos"][NoLabels] =
                Cardinality(SeenWithPosition(aircraftDoc))
        /\ aircraftMetrics["observed_with_mlat"][NoLabels] =
                Cardinality(SeenWithMlat(aircraftDoc))

\* the instruments that depend on the distance and bearing of a record
RangeInstruments == {"max_range", "recent_count", "count"}

Qualifying(doc) ==
    {i \in SeenWithPosition(doc) : {"lat", "lon"} \subseteq DOMAIN doc["aircraft"][i]}

TargetOf(doc, i) == Position(doc["aircraft"][i]["lat"], doc["aircraft"][i]["lon"])

SectorOf(org, doc, i) == relative_bearing(relative_angle(Value(org), TargetOf(doc, i)))

BucketOf(org, doc, i) == distance_bucket(haversine_distance(Value(org), TargetOf(doc, i)))

\* the label sets of max_range and of recent_count the qualifying records fall in
QualifyingSectors(org, doc) ==
    {Label("bearing", SectorOf(org, doc, i)) : i \in Qualifying(doc)}

QualifyingPairs(org, doc) ==
    {RecentLabels(<<SectorOf(org, doc, i), BucketOf(org, doc, i)>>) : i \in Qualifying(doc)}

\* the instrument is written under the label sets of `written` and is as
\* before under every other label set
WrittenOnly(old, new, written) ==
    /\ written \subseteq DOMAIN new
    /\ DOMAIN new = (DOMAIN old) \cup written
    /\ \A l \in (DOMAIN old) \ written : new[l] = old[l]

\* C12 as stated: an aggregation that ran to its end with the origin known
\* writes max_range for the sectors, and recent_count for the (sector, bucket)
\* pairs, of the qualifying positioned records of this cycle and for no other;
\* every other sector and pair keeps the value it had.
C12_WritesQualifyingSectors ==
    [][aircraftCalls' = aircraftCalls + 1 /\ ~aircraftRaised' /\ origin # None
            /\ AllSeen(aircraftDoc') =>
            /\ WrittenOnly(aircraftMetrics["max_range"], aircraftMetrics'["max_range"],
                           QualifyingSectors(origin, aircraftDoc'))
            /\ WrittenOnly(aircraftMetrics["recent_count"],
                           aircraftMetrics'["recent_count"],
                           QualifyingPairs(origin, aircraftDoc'))]_vars

----------------------------------------------------------------------------
(* Properties of the exported values across cycles *)

\* what process_stats makes of the document on an exporter just constructed
FreshStats(doc) == ProcessStats(doc, InitStatsMetrics).metrics

\* what process_aircraft makes of the document on an exporter just constructed
FreshAircraft(doc, org) == ProcessAircraft(doc, org, InitAircraftMetrics).metrics

\* the samples of `fresh` are those of `metric` under the same label sets
SamplesFrom(metric, fresh) ==
    \A l \in DOMAIN fresh : l \in DOMAIN metric /\ metric[l] = fresh[l]

\* C13 as stated: when every cycle so far succeeded, every statistics and
\* aircraft instrument is, over all its label sets, what the most recently
\* fetched document of its endpoint and the current origin alone make of it.
C13_LatestSnapshotOnly ==
    fixture =>
        /\ statsCalls >= 1 /\ ~statsRaised => statsMetrics = FreshStats(statsDoc)
        /\ aircraftCalls >= 1 /\ ~aircraftRaised =>
                aircraftMetrics = FreshAircraft(aircraftDoc, origin)

\* C13, amended: after a statistics reduction every sample the document
\* makes the reduction write is determined by that document alone; after an
\* aircraft aggregation that ran to its end the three totals, and max_range
\* and recent_count under the sectors and pairs tallied in this cycle, are
\* determined by that document and the origin of that cycle alone.  Samples
\* under label sets the latest document did not write are those of earlier
\* cycles.
C13_LatestSnapshotWhereWritten ==
    /\ [][statsCalls' = statsCalls + 1 =>
            \A fresh \in {FreshStats(statsDoc')} : \A key \in RowKeys :
                /\ SamplesFrom(statsMetrics'[key], fresh[key])
                /\ \A l \in (DOMAIN statsMetrics'[key]) \ DOMAIN fresh[key] :
                        l \in DOMAIN statsMetrics[key]
                        /\ statsMetrics'[key][l] = statsMetrics[key][l]]_vars
    /\ [][aircraftCalls' = aircraftCalls + 1 /\ ~aircraftRaised' =>
            \A fresh \in {FreshAircraft(aircraftDoc', origin)} :
            /\ \A name \in {"observed", "observed_with_pos", "observed_with_mlat"} :
                    aircraftMetrics'[name] = fresh[name]
            /\ \A name \in {"max_range", "recent_count"} :
                    /\ SamplesFrom(aircraftMetrics'[name], fresh[name])
                    /\ \A l \in (DOMAIN aircraftMetrics'[name]) \ DOMAIN fresh[name] :
                            l \in DOMAIN aircraftMetrics[name]
                            /\ aircraftMetrics'[name][l] = aircraftMetrics[name][l]]_vars

\* after two aircraft cycles on well-formed documents, the latest document
\* holding no aircraft, max_range still carries the sector of the earlier one
C13_Witness ==
    /\ fixture
    /\ aircraftCalls = 2
    /\ ~aircraftRaised
    /\ aircraftDoc = AircraftDoc(<<>>)
    /\ aircraftMetrics["max_range"] # NoSamples

----------------------------------------------------------------------------
(* Properties of the HTTP telemetry *)

\* the values an error label may take to name the kind of a failure
ErrorNames == {"timeout", "client", "status", "other"}

\* the name the error label must carry for a failure of this kind, where
\* the kind has one name
NamesFor(kind) ==
    CASE kind = "timeout" -> {"timeout"}
      [] kind = "client" -> {"client"}
      [] OTHER -> ErrorNames \ {"timeout", "client"}

\* C14 as stated: a network fetch that fails was counted in the request
\* counter, increments the request-error counter exactly once under a label
\* set naming the resource and the kind of failure, and observes one
\* duration; a fetch that succeeds leaves the request-error counter alone.
C14_FailedFetchTelemetry ==
    [][\A loop \in Loops :
            resource_is_http /\ BodyEnds(loop) =>
                /\ http'.total = http.total
                /\ http.total[ResourceLabels(loop)] = http'.durations[ResourceLabels(loop)].n
                /\ http'.durations = HistogramObserve(http.durations, ResourceLabels(loop), 0)
                /\ IF lastBody'.kind = "ok" THEN http'.errors = http.errors
                   ELSE \E error \in NamesFor(lastBody'.kind) :
                            http'.errors =
                                CounterInc(http.errors, ErrorLabels(loop, error))]_vars

----------------------------------------------------------------------------
(* Properties of the reductions among the loops *)

\* the step is a call of process_aircraft, of process_stats
AircraftReduced == aircraftCalls' = aircraftCalls + 1

StatsReduced == statsCalls' = statsCalls + 1

\* the records of the document that the aggregation measures from the origin
Measured(doc) ==
    {i \in 1..Len(doc["aircraft"]) :
        /\ PositionRecent(Normalised(doc["aircraft"][i]))
        /\ {"lat", "lon"} \subseteq DOMAIN doc["aircraft"][i]}

RangeOf(org, doc, i) == haversine_distance(Value(org), TargetOf(doc, i))

\* max_range and recent_count are, for every measured record, what the
\* records give when each of them is measured from `org`
MeasuredFrom(org, doc, metrics) ==
    \A i \in Measured(doc) :
        LET sector == Label("bearing", SectorOf(org, doc, i))
            pair == RecentLabels(<<SectorOf(org, doc, i), BucketOf(org, doc, i)>>)
        IN  /\ sector \in DOMAIN metrics["max_range"]
            /\ \E j \in Measured(doc) :
                    /\ SectorOf(org, doc, j) = SectorOf(org, doc, i)
                    /\ metrics["max_range"][sector] = RangeOf(org, doc, j)
            /\ metrics["max_range"][sector] >= RangeOf(org, doc, i)
            /\ pair \in DOMAIN metrics["recent_count"]
            /\ metrics["recent_count"][pair] =
                    Cardinality({j \in Measured(doc) :
                        /\ SectorOf(org, doc, j) = SectorOf(org, doc, i)
                        /\ BucketOf(org, doc, j) = BucketOf(org, doc, i)})

\* the step leaves the receiver loop and its origin as they are
ReceiverUntouched ==
    /\ origin' = origin
    /\ receiverDoc' = receiverDoc
    /\ pc'["receiver"] = pc["receiver"]
    /\ cycles'["receiver"] = cycles["receiver"]

\* C19: a reduction is one step among the steps of the loops. A statistics or
\* aircraft reduction begins and ends in the same step, in which the receiver
\* loop does nothing and the origin stays as it is, and the other reducer's
\* instruments are not touched; so an aggregation that ran to its end measured
\* every record of its document from one origin, the one the exporter held
\* when the aggregation was called, and wrote no range when there was none
C19_ReductionsAtomic ==
    [][/\ AircraftReduced =>
            /\ ReceiverUntouched
            /\ statsMetrics' = statsMetrics /\ ~StatsReduced
            /\ (origin # None /\ ~aircraftRaised' /\ "aircraft" \in DOMAIN aircraftDoc')
                    => MeasuredFrom(origin, aircraftDoc', aircraftMetrics')
            /\ origin = None =>
                    /\ aircraftMetrics'["max_range"] = aircraftMetrics["max_range"]
                    /\ aircraftMetrics'["recent_count"] = aircraftMetrics["recent_count"]
       /\ StatsReduced =>
            /\ ReceiverUntouched
            /\ aircraftMetrics' = aircraftMetrics /\ ~AircraftReduced
       /\ cycles'["receiver"] # cycles["receiver"] =>
            /\ aircraftMetrics' = aircraftMetrics /\ ~AircraftReduced
            /\ statsMetrics' = statsMetrics /\ ~StatsReduced]_vars

\* the receiver loop has written the origin, and an aggregation that followed
\* has measured two records of one document from it, in two sectors
C19_Witness ==
    /\ configured_origin = None
    /\ origin # None
    /\ cycles["receiver"] >= 1
    /\ aircraftCalls >= 1
    /\ ~aircraftRaised
    /\ Cardinality(Measured(aircraftDoc)) = 2
    /\ Cardinality(DOMAIN aircraftMetrics["max_range"]) = 2


----------------------------------------------------------------------------
(* Properties of the published ranges *)

\* the qualifying records of the document that fall in the sector of record i
SameSector(org, doc, i) ==
    {j \in Qualifying(doc) : SectorOf(org, doc, j) = SectorOf(org, doc, i)}

\* C22 as stated: after an aggregation that ran to its end with the origin
\* known, every sector with a qualifying positioned record of this cycle has
\* a max_range sample, and it is the largest distance from the origin over
\* the qualifying records of that sector in this cycle, whatever was
\* published for the sector before (0 when they are all at distance 0).
C22_MaxRangeOfThisCycle ==
    [][(/\ aircraftCalls' = aircraftCalls + 1
        /\ ~aircraftRaised'
        /\ origin # None
        /\ AllSeen(aircraftDoc')) =>
            \A i \in Qualifying(aircraftDoc') :
                LET sector == Label("bearing", SectorOf(origin, aircraftDoc', i)) IN
                /\ sector \in DOMAIN aircraftMetrics'["max_range"]
                /\ \E j \in SameSector(origin, aircraftDoc', i) :
                        aircraftMetrics'["max_range"][sector] =
                            RangeOf(origin, aircraftDoc', j)
                /\ \A j \in SameSector(origin, aircraftDoc', i) :
                        aircraftMetrics'["max_range"][sector] >=
                            RangeOf(origin, aircraftDoc', j)]_vars


----------------------------------------------------------------------------
(* Properties of the geometry functions *)

\* the six distance labels
BucketLabels ==
    {FloatStr(HistogramBuckets[i]) : i \in 1..Len(HistogramBuckets)} \cup {"+Inf"}

\* the bounds of the range histogram that are not below the distance
BoundsFrom(d) == {i \in 1..Len(HistogramBuckets) : HistogramBuckets[i] >= d}

\* C23: distance_bucket returns the label of the smallest bound of the range
\* histogram that is not below the distance, and "+Inf" when the distance is
\* above all of them; a distance that equals a bound is in the band of that
\* bound, and the result is one of the six labels
C23_BucketIsSmallestBound ==
    ret_bucket # "none" =>
        /\ ret_bucket \in BucketLabels
        /\ IF BoundsFrom(arg_distance) = {} THEN ret_bucket = "+Inf"
           ELSE \E i \in BoundsFrom(arg_distance) :
                    /\ \A j \in BoundsFrom(arg_distance) : i <= j
                    /\ ret_bucket = FloatStr(HistogramBuckets[i])

\* distance_bucket was called on 80000 and returned "80000.0"
C23_Witness ==
    /\ arg_distance = 800000
    /\ ret_bucket = "80000.0"

\* the sixteen sector labels: the multiples of 22.5 from "0.0" to "337.5"
SectorLabels == {FloatStr(k * 225) : k \in 0..15}

\* C24: relative_angle returns an angle from 0 up to, and not including, 360;
\* for two positions of one latitude it returns 90 when the target lies at a
\* greater longitude and 270 otherwise; relative_bearing of the angle is one
\* of the sixteen sector labels
C24_AngleAndSectorInRange ==
    ret_bearing # "none" =>
        /\ ret_angle >= 0
        /\ ret_angle < FullTurn
        /\ arg_pos2.latitude = arg_pos1.latitude =>
                ret_angle = IF arg_pos2.longitude > arg_pos1.longitude
                            THEN 90000 ELSE 270000
        /\ ret_bearing \in SectorLabels

\* relative_angle was called on a target due west of the origin
C24_Witness ==
    /\ arg_pos2.latitude = arg_pos1.latitude
    /\ arg_pos2.longitude < arg_pos1.longitude
    /\ ret_angle = 270000
    /\ ret_bearing = "270.0"


----------------------------------------------------------------------------
(* Properties of the origin over the life of the exporter *)

\* C25: an origin that is set stays set: no step of the loops, of start() or
\* of stop() takes the exporter from a state with an origin to one without,
\* be it a failed receiver fetch or a receiver document without lat and lon
C25_OriginStaysSet ==
    [][origin # None => origin' # None]_vars

\* the first receiver cycle extracted the origin and the second, whose fetch
\* failed or whose document had no lat and lon, has ended
C25_Witness ==
    /\ configured_origin = None
    /\ origin # None
    /\ cycles["receiver"] = 2
    /\ lastBody.loop = "receiver"
    /\ lastBody.kind # "ok" \/ ~("lat" \in DOMAIN receiverDoc /\ "lon" \in DOMAIN receiverDoc)


----------------------------------------------------------------------------
(* Properties of the published totals *)

\* C26 as stated: after an aggregation that ran to its end, the published
\* totals are ordered: observed_with_mlat <= observed_with_pos <= observed.
C26_TotalsOrdered ==
    aircraftCalls >= 1 /\ ~aircraftRaised =>
        /\ aircraftMetrics["observed_with_mlat"][NoLabels]
                <= aircraftMetrics["observed_with_pos"][NoLabels]
        /\ aircraftMetrics["observed_with_pos"][NoLabels]
                <= aircraftMetrics["observed"][NoLabels]


----------------------------------------------------------------------------
(* Properties of the fetch telemetry over the life of the exporter *)

\* the fetches of the loop that are in flight
InFlight(loop) == IF pc[loop] = "Fetching" THEN 1 ELSE 0

\* the request errors counted for the resource, under whatever label set
ErrorsOf(loop) ==
    DefaultGet(http.errors, ResourceLabels(loop))
    + DefaultGet(http.errors, ErrorLabels(loop, "timeout"))
    + DefaultGet(http.errors, ErrorLabels(loop, "client"))

\* every error sample is one of those ErrorsOf adds up
ErrorSamplesKnown ==
    DOMAIN http.errors \subseteq
        UNION {{ResourceLabels(loop), ErrorLabels(loop, "timeout"),
                ErrorLabels(loop, "client")} : loop \in Loops}

\* C27: on network resources every fetch of a loop is counted once when it
\* begins and observed once when it ends, be it with a document, with an
\* error or by cancellation: the requests counted are the cycles ended plus
\* the fetch in flight, the durations observed are the cycles ended, and the
\* errors counted do not exceed the requests; on file resources the three
\* instruments stay empty
C27_TelemetryConsistent ==
    /\ ErrorSamplesKnown
    /\ resource_is_http =>
            \A loop \in Loops :
                /\ Requested(loop) = cycles[loop] + InFlight(loop)
                /\ Answered(loop) = cycles[loop]
                /\ ErrorsOf(loop) <= Requested(loop)
    /\ ~resource_is_http => http = InitHttp

\* a failed fetch of one loop was counted as an error, and the fetch of
\* another is in flight with its cancellation pending
C27_Witness ==
    /\ resource_is_http
    /\ \E failed \in Loops, loop \in Loops :
            /\ ErrorsOf(failed) = 1
            /\ Answered(failed) = 1
            /\ pc[loop] = "Fetching"
            /\ must_cancel[loop]
            /\ Requested(loop) = Answered(loop) + 1


----------------------------------------------------------------------------
(* Properties of stop() after any calls of start() *)

\* C28 as stated: when a stop() call has returned and start() was not called
\* since, no loop task that a start() created is running: every task has
\* ended, those no attribute holds included.
C28_StopEndsEveryLoop ==
    (svr = "stopped" /\ stop_pc = "idle") =>
        /\ orphans = {}
        /\ \A loop \in Loops : pc[loop] \in {"NotStarted", "Stopped"}


============================================================================
